---- MODULE Spec2Model ----
(***************************************************************************)
(* Model of the media-downloader core (src/mdl): the QueueManager, the     *)
(* InfoWorker / DownloadWorker threads and the MainWindow controller that  *)
(* sequences queue items through them.                                     *)
(*                                                                         *)
(* Conventions.  Python's None is 0 for the current queue index; queue     *)
(* indices are 1-based (model index i is Python index i-1).                *)
(* A worker reference (info_worker, download_worker) holds    *)
(* the state of the QThread it refers to, NoWorker for None; `orphans` is  *)
(* the bag of threads that are still executing and that the window no      *)
(* longer references.  Signals emitted by a worker thread are queued        *)
(* connections: they are appended to `mailbox` (the GUI thread's event      *)
(* queue) and handled later, in FIFO order, by the Deliver actions.  A      *)
(* slot of the GUI thread runs to completion, so each slot, together with   *)
(* every method it calls, is one action.                                    *)
(***************************************************************************)
EXTENDS Integers, Sequences, FiniteSets, Bags, TLC

\* ---------------------------------------------------------------- bounds
MaxAdds == 3          \* items added to the queue over a behaviour of a queue run
MaxShortAdds == 2     \* items added over a behaviour of a short queue run
MaxHooks == 1         \* progress-hook invocations the engine makes per transfer
MaxAppAdds == 1       \* items added over a behaviour of the whole application
MaxUserLaunch == 1    \* workers started by a direct user action (Fetch / single download)
MaxThrottleEvents == 3  \* 'downloading' events reported to the throttle

MaxEntries == 3         \* entries of the scratch directory
MaxSize == 2            \* st_size of a file of the scratch directory

MaxNameLen == 3         \* characters of a file name
MaxSuffixLen == 3       \* characters of a file-name suffix

MaxManagerAdds == 3     \* items added to a queue manager taken alone

MaxLookups == 3         \* calls of get_ffmpeg_location in one process

MaxFormats == 2         \* formats in the engine's raw list

MaxWorkerHooks == 2   \* progress-hook invocations of a transfer taken alone

\* ------------------------------------------------------ program constants
PercentScale == 4       \* percentages are counted in quarters of a percent
Hundred == 100 * PercentScale
HalfPercent == 2        \* 0.5 percent, in quarters
Window == 2             \* 0.25 s, the clock counting eighths of a second
ErrTruncate == 100    \* str(e)[:100]
MarkerLen == 6        \* len("cancel")

\* None, as a queue index
None == 0

Min(a, b) == IF a < b THEN a ELSE b
Max(a, b) == IF a > b THEN a ELSE b

VARIABLES mw,        \* the MainWindow fields, the queue's items among them
          orphans,   \* running QThreads the window no longer references
          mailbox,   \* signals emitted by workers and not yet handled
          nAdded,    \* items added so far (also the source of item identities)
          nUser      \* workers started by direct user actions so far

vars == <<mw, orphans, mailbox, nAdded, nUser>>

\* ------------------------------------------------------------ error texts
\* An error text is abstracted to what the program reads of it: which text it
\* is, how many characters of an underlying engine message it carries, and
\* whether it contains "cancel" (case-insensitively).
Text(name, len, marker) == [text |-> name, len |-> len, marker |-> marker]

NoText == Text("", 0, FALSE)
CancelledAfterCall == Text("(no entry sign) Cancelled.", 0, TRUE)
CancelledInExcept == Text("Cancelled.", 0, TRUE)
TempMissing == Text("Error: Temporary folder missing.", 0, FALSE)
FileNotFound == Text("Error: File not found.", 0, FALSE)
CancelledByUser == Text("Cancelled by user", 0, TRUE)
Processing == Text("Processing / Converting...", 0, FALSE)

\* Messages an exception can carry: [len, marker], marker = 1-based position of
\* the word "cancel" in the message, 0 when the message does not contain it.
EngineErrors == {[len |-> 20, marker |-> 0], [len |-> 150, marker |-> 120]}
HookAbort == [len |-> 9, marker |-> 1]      \* Exception("Cancelled")
NoExc == [len |-> 0, marker |-> 0]

\* f"Error: {str(e)[:100]}..."
TruncatedError(e) ==
    Text("Error: <engine message>", Min(e.len, ErrTruncate),
         e.marker # 0 /\ e.marker + MarkerLen - 1 <= ErrTruncate)

\* "cancel" in (err or "").lower()
is_cancel(err) == err.marker

\* ---------------------------------------------------------- QueueManager
\* An item: its identity (the order of its add; the program identifies items
\* by position only), status, title ("url" until a title is known), stored
\* error message and progress.
NewItem(id) ==
    [id |-> id, status |-> "pending", title |-> "url",
     error_message |-> NoText, progress |-> 0]

ValidIndex(items, index) == index >= 1 /\ index <= Len(items)

add(items, id) == Append(items, NewItem(id))

\* A remove that also accepts cancelled items.
RemovableStatusesMut == {"pending", "finished", "error", "cancelled"}

RemovableStatuses == {"pending", "finished", "error"}

remove_ok(items, index) ==
    ValidIndex(items, index) /\ items[index].status \in RemovableStatuses

remove(items, index) ==
    IF remove_ok(items, index)
    THEN SubSeq(items, 1, index - 1) \o SubSeq(items, index + 1, Len(items))
    ELSE items

\* A clear that keeps cancelled items.
clear_finishedMut(items) ==
    SelectSeq(items, LAMBDA it : it.status \notin {"finished", "error"})

clear_finished(items) ==
    SelectSeq(items, LAMBDA it : it.status \notin {"finished", "error", "cancelled"})

clear_all(items) == << >>

\* A search that takes the last pending item.
get_next_pendingMut(items) ==
    LET pending == {i \in DOMAIN items : items[i].status = "pending"}
    IN  IF pending = {} THEN None ELSE CHOOSE i \in pending : \A j \in pending : j <= i

\* A count of the items that have not ended.
count_pendingMut(items) ==
    Cardinality({i \in DOMAIN items : items[i].status \in {"pending", "downloading"}})

PendingIndices(items) == {i \in DOMAIN items : items[i].status = "pending"}

\* The index of the first pending item, None when there is none.
get_next_pending(items) ==
    IF PendingIndices(items) = {} THEN None
    ELSE CHOOSE i \in PendingIndices(items) : \A j \in PendingIndices(items) : i <= j

count_pending(items) == Cardinality(PendingIndices(items))

update_status(items, index, status, error_message) ==
    IF ValidIndex(items, index)
    THEN [items EXCEPT ![index].status = status, ![index].error_message = error_message]
    ELSE items

update_title(items, index, title) ==
    IF ValidIndex(items, index) THEN [items EXCEPT ![index].title = title] ELSE items

\* An update that only keeps the value from going negative.
update_progressMut(items, index, progress) ==
    IF ValidIndex(items, index)
    THEN [items EXCEPT ![index].progress = Max(0, progress)]
    ELSE items

update_progress(items, index, progress) ==
    IF ValidIndex(items, index)
    THEN [items EXCEPT ![index].progress = Max(0, Min(Hundred, progress))]
    ELSE items

\* What the methods return.  An index is returned as the model's position
\* (the program's index plus one), None when the program returns None.
add_returns(items) == Len(items) + 1
remove_returns(items, index) == remove_ok(items, index)
clear_finished_returns(items) == Len(clear_finished(items)) # Len(items)
clear_all_returns(items) == items # << >>
update_returns(items, index) == ValidIndex(items, index)

\* ---------------------------------------------------------------- workers
\* pc: where run is.  An InfoWorker is at "run" (in the engine call), then
\* "emitted" (signal emitted, run not yet returned), then "done".  A
\* DownloadWorker is at "engine" (in ydl.download), "placing" (line 169 on:
\* the flag has been read, the artifact is being placed), "finally" (terminal
\* signal emitted, scratch directory not yet removed), then "done".
\* exc: the exception that unwound the engine call or the placement.
\* hooks: the hook invocations so far.  temp_dir: "none" when the worker was
\* given no scratch directory, else the directory as the filesystem has it:
\* "dir" (it exists), "gone" (it does not), "locked" (it exists and rmtree
\* fails on it).  Not read by the program: item, the identity of the queue
\* item the worker was started for (0: none); moved, whether shutil.move has
\* put the artifact into the download folder.
Worker(kind, pc, item) ==
    [kind |-> kind, pc |-> pc, is_cancelled |-> FALSE,
     item |-> item, hooks |-> 0, exc |-> NoExc, temp_dir |-> "none", moved |-> FALSE,
     last_progress_emit_time |-> 0, last_progress_percent |-> -PercentScale]

NoWorker == Worker("none", "done", 0)
NewInfoWorker(item) == Worker("info", "run", item)
NewDownloadWorker(item) == [Worker("download", "engine", item) EXCEPT !.temp_dir = "dir"]

\* QThread.isRunning(): from start() until run() has returned.
isRunning(wk) == wk.pc # "done"

\* A thread whose run has returned, and one that has emitted its terminal
\* signal and is unreferenced: the fields nothing reads any more are reset.
Returned(wk) == [Worker(wk.kind, "done", 0) EXCEPT !.temp_dir = wk.temp_dir]
Unreferenced(wk) ==
    IF wk.pc \in {"emitted", "finally"}
    THEN [Worker(wk.kind, wk.pc, 0) EXCEPT !.temp_dir = wk.temp_dir]
    ELSE wk

\* The identity of the item the controller is tracking.
TrackedItem(c) ==
    IF c.queue_active /\ ValidIndex(c.items, c.current_queue_index)
    THEN c.items[c.current_queue_index].id ELSE 0

\* ------------------------------------------------------------- MainWindow
\* The URL box holds "" or "http": one valid URL stands for all of them, so
\* every queue item carries the URL "http".
ZeroSummary == [finished |-> 0, error |-> 0, cancelled |-> 0]

InitMainWindow ==
    [items |-> << >>,
     queue_active |-> FALSE,
     current_queue_index |-> None,
     queue_summary |-> ZeroSummary,
     queue_cancel_requested |-> FALSE,
     info_worker |-> NoWorker,
     download_worker |-> NoWorker,
     video_info |-> FALSE,
     url |-> "",
     \* the queue item whose URL process_queue put into the box, 0 when the
     \* text is the user's
     url_item |-> 0,
     btn_cancel |-> FALSE,
     btn_add_queue |-> TRUE,
     \* the running slot's effect on threads: those it started, and those
     \* still running that it dropped its reference to
     started |-> 0,
     dropped |-> << >>]

\* self.info_worker = wk, self.download_worker = wk
set_info_worker(c, wk) ==
    [c EXCEPT !.info_worker = wk,
              !.dropped = IF isRunning(c.info_worker) THEN Append(@, c.info_worker) ELSE @]

set_download_worker(c, wk) ==
    [c EXCEPT !.download_worker = wk,
              !.dropped = IF isRunning(c.download_worker) THEN Append(@, c.download_worker) ELSE @]

\* item: the queue item the fetch is for, 0 when the Fetch button or the
\* URL timer asked for it.
start_fetch_info(c, item) ==
    IF c.info_worker # NoWorker /\ isRunning(c.info_worker) THEN c
    ELSE IF c.url # "http" THEN c
    ELSE [set_info_worker(c, NewInfoWorker(item)) EXCEPT !.started = @ + 1]

_start_download_for_url(c) ==
    IF c.url = "" THEN c
    ELSE [set_download_worker(c, NewDownloadWorker(IF c.queue_active THEN c.url_item ELSE 0)) EXCEPT
              !.btn_cancel = TRUE,
              !.btn_add_queue = FALSE,
              !.started = @ + 1]

\* download_worker.cancel()
cancel(c) == [c EXCEPT !.download_worker.is_cancelled = TRUE]

\* start_fetch_info as process_queue calls it, for the item it has just made
\* current.
start_fetch_info_for(c) == start_fetch_info(c, TrackedItem(c))

process_queue(c) ==
    IF c.download_worker # NoWorker \/ c.info_worker # NoWorker THEN c
    ELSE LET c1 == IF ~c.queue_active
                   THEN [c EXCEPT !.queue_active = TRUE, !.queue_summary = ZeroSummary]
                   ELSE c
             next_index == get_next_pending(c1.items)
         IN  IF next_index = None
             THEN [c1 EXCEPT !.queue_active = FALSE,
                             !.current_queue_index = None,
                             !.queue_cancel_requested = FALSE,
                             !.btn_cancel = FALSE]
             ELSE start_fetch_info_for(
                      [c1 EXCEPT
                          !.current_queue_index = next_index,
                          !.queue_cancel_requested = FALSE,
                          !.items = update_progress(
                                        update_status(@, next_index, "downloading", NoText),
                                        next_index, 0),
                          !.url = "http",
                          !.url_item = c1.items[next_index].id,
                          !.btn_cancel = TRUE])

\* A pass that stops after the first pending item.
_cancel_all_pending_queue_itemsMut(c) ==
    LET first == get_next_pending(c.items)
    IN  IF first = None THEN c
        ELSE [c EXCEPT !.items[first].status = "cancelled",
                       !.queue_summary.cancelled = @ + 1]

_cancel_all_pending_queue_items(c) ==
    [c EXCEPT !.items = [i \in DOMAIN c.items |->
                            IF c.items[i].status = "pending"
                            THEN [c.items[i] EXCEPT !.status = "cancelled"]
                            ELSE c.items[i]],
              !.queue_summary.cancelled = @ + count_pending(c.items)]

_mark_current_queue_item_cancelled(c) ==
    IF c.current_queue_index = None THEN c
    ELSE [c EXCEPT !.items = update_status(@, c.current_queue_index, "cancelled", CancelledByUser),
                   !.queue_summary.cancelled = @ + 1,
                   !.current_queue_index = None,
                   !.queue_cancel_requested = FALSE]

finish_download_ui(c) ==
    set_info_worker(
        set_download_worker(
            [c EXCEPT !.btn_cancel = c.queue_active /\ count_pending(c.items) > 0,
                      !.btn_add_queue = TRUE],
            NoWorker),
        NoWorker)

\* Line 460: the cancel flag as on_info_fetched reads it.
cancel_requested_after_fetchMut(c) == FALSE
cancel_requested_after_fetch(c) == c.queue_cancel_requested

on_info_fetched(c) ==
    LET c1 == [set_info_worker(c, NoWorker) EXCEPT !.video_info = TRUE]
    IN  IF c1.queue_active /\ c1.current_queue_index # None
        THEN LET c2 == [c1 EXCEPT !.items = update_title(@, c1.current_queue_index, "info")]
             IN  IF cancel_requested_after_fetch(c2)
                 THEN process_queue(_mark_current_queue_item_cancelled(c2))
                 ELSE _start_download_for_url(c2)
        ELSE c1

on_info_error(c, err) ==
    LET c1 == set_info_worker(c, NoWorker)
    IN  IF c1.queue_active /\ c1.current_queue_index # None
        THEN process_queue(
                 [c1 EXCEPT !.items = update_status(@, c1.current_queue_index, "error", err),
                            !.queue_summary.error = @ + 1,
                            !.current_queue_index = None])
        ELSE c1

start_download(c) ==
    IF c.download_worker # NoWorker \/ c.info_worker # NoWorker THEN c
    ELSE IF count_pending(c.items) > 0 /\ ~c.queue_active THEN process_queue(c)
    ELSE _start_download_for_url(c)

\* MainWindow.update_progress, the slot of progress_signal.
on_progress(c, percent) ==
    IF c.queue_active /\ c.current_queue_index # None
    THEN [c EXCEPT !.items = update_progress(@, c.current_queue_index, percent)]
    ELSE c

\* on_download_finished without the update of the current item.
on_download_finishedMut(c) ==
    LET c2 == finish_download_ui([c EXCEPT !.current_queue_index = None])
    IN  IF c2.queue_active THEN process_queue(c2) ELSE c2

on_download_finished(c) ==
    LET c1 == IF c.queue_active /\ c.current_queue_index # None
              THEN [c EXCEPT !.items = update_progress(
                                           update_status(@, c.current_queue_index, "finished", NoText),
                                           c.current_queue_index, Hundred),
                             !.queue_summary.finished = @ + 1,
                             !.current_queue_index = None]
              ELSE c
        c2 == finish_download_ui(c1)
    IN  IF c2.queue_active THEN process_queue(c2) ELSE c2

on_download_error(c, err) ==
    LET c1 == IF c.queue_active /\ c.current_queue_index # None
              THEN IF is_cancel(err)
                   THEN [c EXCEPT !.items = update_status(@, c.current_queue_index, "cancelled", err),
                                  !.queue_summary.cancelled = @ + 1,
                                  !.current_queue_index = None]
                   ELSE [c EXCEPT !.items = update_status(@, c.current_queue_index, "error", err),
                                  !.queue_summary.error = @ + 1,
                                  !.current_queue_index = None]
              ELSE c
        c2 == finish_download_ui(c1)
    IN  IF c2.queue_active THEN process_queue(c2) ELSE c2

cancel_download(c, shift_pressed) ==
    IF c.queue_active
    THEN LET c1 == [c EXCEPT !.queue_cancel_requested = TRUE]
             c2 == IF shift_pressed THEN _cancel_all_pending_queue_items(c1) ELSE c1
         IN  IF c2.download_worker # NoWorker THEN cancel(c2)
             ELSE IF c2.info_worker # NoWorker /\ isRunning(c2.info_worker)
                  THEN process_queue(_mark_current_queue_item_cancelled(c2))
                  ELSE c2
    ELSE IF c.download_worker # NoWorker THEN cancel(c) ELSE c

add_to_queue(c, id) ==
    IF c.url = "" THEN c
    ELSE LET c1 == [c EXCEPT !.items = add(@, id)]
         IN  IF c1.video_info
             THEN [c1 EXCEPT !.items = update_title(@, Len(c1.items), "info")]
             ELSE c1

\* A wipe that forgets the run's bookkeeping and leaves the transfer alone.
on_clear_queue_requestedMut(c) ==
    IF Len(c.items) = 0 THEN c ELSE [c EXCEPT !.items = clear_all(@)]

on_clear_queue_requested(c) ==
    IF Len(c.items) = 0 THEN c
    ELSE LET c1 == IF c.queue_active
                   THEN LET c0 == [c EXCEPT !.queue_active = FALSE,
                                            !.queue_cancel_requested = TRUE,
                                            !.current_queue_index = None,
                                            !.queue_summary = ZeroSummary]
                        IN  IF c0.download_worker # NoWorker THEN cancel(c0) ELSE c0
                   ELSE c
         IN  [c1 EXCEPT !.items = clear_all(@)]

\* _update_download_button_text: the state of the Download button after every
\* slot that can change it.
btn_download_enabled(c) ==
    /\ ~c.queue_active
    /\ c.download_worker = NoWorker /\ c.info_worker = NoWorker
    /\ (count_pending(c.items) > 0 \/ c.url # "")

\* ------------------------------------------------- DownloadWorker.run steps
AbsDiff(a, b) == IF a >= b THEN a - b ELSE b - a

\* A hook event d: the reading of time.monotonic() when the hook runs,
\* d['downloaded_bytes'], and d['total_bytes'] or d['total_bytes_estimate']
\* or 0.
Event(now, downloaded, total) == [now |-> now, downloaded |-> downloaded, total |-> total]

\* Line 239: percent = (downloaded / total * 100) if total > 0 else 0.  The
\* totals the model uses divide downloaded * Hundred.
percent_of(d) == IF d.total > 0 THEN (d.downloaded * Hundred) \div d.total ELSE 0

\* should_emit without the percentage clause.
should_emitMut(wk, d) ==
    \/ wk.last_progress_emit_time = 0
    \/ d.now - wk.last_progress_emit_time >= Window
    \/ d.total > 0 /\ d.downloaded >= d.total

\* should_emit of progress_hook (lines 242-247).
should_emit(wk, d) ==
    \/ wk.last_progress_emit_time = 0
    \/ d.now - wk.last_progress_emit_time >= Window
    \/ AbsDiff(percent_of(d), wk.last_progress_percent) >= HalfPercent
    \/ d.total > 0 /\ d.downloaded >= d.total

\* A queued signal; item is the emitting worker's item.
Signal(wk, sig, percent, text) ==
    [item |-> wk.item, sig |-> sig, percent |-> percent, text |-> text]

\* A terminal emission followed by one more progress signal.
EmitTerminalMut(wk, pc, sig, text) ==
    [worker |-> [wk EXCEPT !.pc = pc],
     signals |-> << Signal(wk, sig, 0, text), Signal(wk, "progress", Hundred, NoText) >>]

\* The worker after emitting a terminal signal, and the signal.
EmitTerminal(wk, pc, sig, text) ==
    [worker |-> [wk EXCEPT !.pc = pc],
     signals |-> << Signal(wk, sig, 0, text) >>]

\* Lines 217-223, the except clause of run: the error it emits.
except_messageMut(wk) ==
    IF wk.exc = HookAbort THEN CancelledInExcept ELSE TruncatedError(wk.exc)
except_message(wk) ==
    IF wk.is_cancelled THEN CancelledInExcept ELSE TruncatedError(wk.exc)

\* An exception e unwinds the try block: the except clause runs.
except_clause(wk, e) ==
    LET raised == [wk EXCEPT !.exc = e]
    IN  EmitTerminal(raised, "finally", "error", except_message(raised))

\* Lines 232-233: the hook raises into the engine when the flag is set.
hook_abortsMut(wk, status) == wk.is_cancelled /\ status = "downloading"
hook_aborts(wk, status) == wk.is_cancelled

\* progress_hook(d), and the except clause when the hook raises: the worker
\* after the call and the signals it emitted.
progress_hook(wk, status, d) ==
    IF hook_aborts(wk, status)
    THEN except_clause([wk EXCEPT !.hooks = @ + 1], HookAbort)
    ELSE IF status = "downloading"
    THEN IF should_emit(wk, d)
         THEN [worker |-> [wk EXCEPT !.hooks = @ + 1,
                                     !.last_progress_emit_time = d.now,
                                     !.last_progress_percent = percent_of(d)],
               signals |-> << Signal(wk, "progress", percent_of(d), NoText) >>]
         ELSE [worker |-> [wk EXCEPT !.hooks = @ + 1], signals |-> << >>]
    ELSE IF status = "finished"
    THEN [worker |-> [wk EXCEPT !.hooks = @ + 1],
          signals |-> << Signal(wk, "progress", Hundred, Processing) >>]
    ELSE [worker |-> [wk EXCEPT !.hooks = @ + 1], signals |-> << >>]

\* Line 167: where run continues after emitting the cancelled error.
after_cancel_emitMut == "placing"
after_cancel_emit == "finally"

\* A run that does not look at the flag after the engine call.
after_callMut(wk) == [worker |-> [wk EXCEPT !.pc = "placing"], signals |-> << >>]

\* Lines 164-167: the flag is read once, after the engine call has returned.
after_call(wk) ==
    IF wk.is_cancelled
    THEN EmitTerminal(wk, after_cancel_emit, "error", CancelledAfterCall)
    ELSE [worker |-> [wk EXCEPT !.pc = "placing"], signals |-> << >>]

PlacementOutcomes(playlist_mode) ==
    IF playlist_mode THEN {"renamed", "raise"}
    ELSE {"temp_missing", "not_found", "moved", "raise", "raise_moved"}

\* Lines 169-215: the suffix pass of a playlist, or locating and moving the
\* artifact; each can raise, the scan and the move before the artifact is in
\* the download folder ("raise"), the suffix rename of line 211 after it is
\* ("raise_moved").
placement(wk, outcome, e) ==
    CASE outcome = "renamed" -> EmitTerminal(wk, "finally", "finished", NoText)
      [] outcome = "moved" ->
             EmitTerminal([wk EXCEPT !.moved = TRUE], "finally", "finished", NoText)
      [] outcome = "raise_moved" -> except_clause([wk EXCEPT !.moved = TRUE], e)
      [] outcome = "temp_missing" ->
             EmitTerminal([wk EXCEPT !.temp_dir = "gone"], "finally", "error", TempMissing)
      [] outcome = "not_found" -> EmitTerminal(wk, "finally", "error", FileNotFound)
      [] outcome = "raise" -> except_clause(wk, e)

\* Lines 174-202, locating the artifact.  An entry of os.scandir(temp_dir):
\* whether entry.is_file(), whether entry.path ends with "." + target_ext,
\* whether entry.stat() succeeds and the st_size it then gives.
File(ext, size) == [is_file |-> TRUE, ext |-> ext, stat_ok |-> TRUE, size |-> size]
Unreadable(ext) == [is_file |-> TRUE, ext |-> ext, stat_ok |-> FALSE, size |-> 0]
Directory(ext) == [is_file |-> FALSE, ext |-> ext, stat_ok |-> TRUE, size |-> 0]

\* The locals of run before the loop (lines 174-176); files are named by
\* their position in the enumeration.
Scan(entries) ==
    [entries |-> entries, pos |-> 1, broke |-> FALSE,
     target |-> None, largest_file |-> None, largest_size |-> -1]

\* A loop body that does not skip the entries that are not regular files.
scan_entryMut(s) ==
    LET entry == s.entries[s.pos]
        next == [s EXCEPT !.pos = @ + 1]
    IN  IF entry.ext THEN [s EXCEPT !.target = s.pos, !.broke = TRUE]
        ELSE IF entry.size > s.largest_size
             THEN [next EXCEPT !.largest_size = entry.size, !.largest_file = s.pos]
             ELSE next

\* Lines 183-198: the body of the loop, for the entry at pos.
scan_entry(s) ==
    LET entry == s.entries[s.pos]
        next == [s EXCEPT !.pos = @ + 1]
    IN  IF ~entry.is_file THEN next
        ELSE IF entry.ext THEN [s EXCEPT !.target = s.pos, !.broke = TRUE]
        ELSE IF ~entry.stat_ok THEN next
        ELSE IF entry.size > s.largest_size
             THEN [next EXCEPT !.largest_size = entry.size, !.largest_file = s.pos]
             ELSE next

scan_over(s) == s.broke \/ s.pos > Len(s.entries)

\* A choice that prefers the largest file to the match.
selectedMut(s) == IF s.largest_file # None THEN s.largest_file ELSE s.target

\* Lines 200-201: if not target: target = largest_file.
selected(s) == IF s.target # None THEN s.target ELSE s.largest_file

\* Lines 200-215 when nothing raises: the file chosen is moved and finished
\* is emitted, or there is none and the error is.
place_selected(wk) ==
    LET target == selected(wk.scan)
    IN  placement([wk EXCEPT !.scan.target = target],
                  IF target # None THEN "moved" ELSE "not_found", NoExc)

\* Lines 104-124, the suffix-renaming step.  A string is a sequence of
\* characters: "c" a letter, "." the dot, " " the blank, "<" a character that
\* is illegal in a file name, "_" its replacement.
RECURSIVE lstrip(_)
lstrip(s) == IF s # << >> /\ Head(s) = " " THEN lstrip(Tail(s)) ELSE s

RECURSIVE rstrip(_, _)
rstrip(s, ch) ==
    IF s # << >> /\ s[Len(s)] = ch THEN rstrip(SubSeq(s, 1, Len(s) - 1), ch) ELSE s

\* str.strip()
strip(s) == rstrip(lstrip(s), " ")

endswith(s, t) == Len(t) <= Len(s) /\ SubSeq(s, Len(s) - Len(t) + 1, Len(s)) = t

\* os.path.splitext of a name without directories: the extension starts at
\* the last dot, unless only dots come before it.
splitext(name) ==
    LET dots == {i \in DOMAIN name : name[i] = "."}
        dotIndex == IF dots = {} THEN 0 ELSE CHOOSE i \in dots : \A j \in dots : j <= i
    IN  IF dotIndex > 0 /\ \E j \in 1..(dotIndex - 1) : name[j] # "."
        THEN <<SubSeq(name, 1, dotIndex - 1), SubSeq(name, dotIndex, Len(name))>>
        ELSE <<name, << >> >>

\* Lines 104-107.
_safe_suffix(file_name_suffix) ==
    IF file_name_suffix = << >> THEN << >>
    ELSE rstrip(strip([i \in DOMAIN file_name_suffix |->
                          IF file_name_suffix[i] = "<" THEN "_" ELSE file_name_suffix[i]]),
                ".")

\* Lines 109-124, for an existing regular file: the name it has afterwards.
_apply_suffix_to_file(file_name_suffix, file_name) ==
    IF file_name_suffix = << >> \/ file_name = << >> THEN file_name
    ELSE LET base_name == splitext(file_name)[1]
             ext == splitext(file_name)[2]
             safe_suffix == _safe_suffix(file_name_suffix)
         IN  IF safe_suffix = << >> \/ endswith(base_name, safe_suffix) THEN file_name
             ELSE base_name \o << " " >> \o safe_suffix \o ext

\* Lines 224-229, the finally clause, and the return of run.  removed: rmtree
\* succeeds; when it raises, the exception is swallowed.
finally_clauseMut(wk, removed) == [worker |-> Returned(wk), signals |-> << >>]
finally_clause(wk, removed) ==
    [worker |-> Returned(IF wk.temp_dir = "dir"
                         THEN [wk EXCEPT !.temp_dir = IF removed THEN "gone" ELSE "locked"]
                         ELSE wk),
     signals |-> << >>]

\* ------------------------------------------------------------------- Init
Init ==
    /\ mw = InitMainWindow
    /\ orphans = EmptyBag
    /\ mailbox = << >>
    /\ nAdded = 0
    /\ nUser = 0

RECURSIVE BagOfSeq(_)
BagOfSeq(sq) ==
    IF sq = << >> THEN EmptyBag ELSE SetToBag({Unreferenced(Head(sq))}) (+) BagOfSeq(Tail(sq))

\* A referenced thread whose run has returned.
Settle(wk) == IF wk.pc = "done" THEN Returned(wk) ELSE wk

\* The controller as a slot leaves it: the transient bookkeeping is cleared
\* and references to threads that have returned read as not running.
Committed(c) ==
    [c EXCEPT !.started = 0, !.dropped = << >>,
              !.info_worker = Settle(@), !.download_worker = Settle(@)]

\* The end of a slot of the GUI thread: the threads it dropped while they were
\* running join the orphans.
Step(c, mb) ==
    /\ mw' = Committed(c)
    /\ orphans' = orphans (+) BagOfSeq(c.dropped)
    /\ mailbox' = mb

\* ----------------------------------------------------------- user actions
\* The user types a URL into the empty box.
TypeUrl ==
    /\ mw.url = ""
    /\ Step([mw EXCEPT !.url = "http"], mailbox)
    /\ UNCHANGED <<nAdded, nUser>>

\* A user-initiated slot that may start a worker outside the queue's own
\* sequencing; such starts are counted and bounded.
UserSlot(c, max_user) ==
    /\ c.started = 0 \/ nUser < max_user
    /\ c # mw
    /\ Step(c, mailbox)
    /\ nUser' = nUser + c.started
    /\ UNCHANGED nAdded

\* fetch_timer.timeout, 350 ms after an edit of the URL box, and the Fetch
\* button: both call start_fetch_info.
FetchTimeout(max_user) == UserSlot(start_fetch_info(mw, 0), max_user)

StartQueue ==
    /\ btn_download_enabled(mw)
    /\ count_pending(mw.items) > 0
    /\ Step(start_download(mw), mailbox)
    /\ UNCHANGED <<nAdded, nUser>>

StartSingleDownload(max_user) ==
    /\ btn_download_enabled(mw)
    /\ count_pending(mw.items) = 0
    /\ UserSlot(start_download(mw), max_user)

CancelDownload(shift_pressed) ==
    /\ mw.btn_cancel
    /\ cancel_download(mw, shift_pressed) # mw
    /\ Step(cancel_download(mw, shift_pressed), mailbox)
    /\ UNCHANGED <<nAdded, nUser>>

AddToQueue(max_adds) ==
    /\ mw.btn_add_queue
    /\ mw.url # ""
    /\ nAdded < max_adds
    /\ Step(add_to_queue(mw, nAdded + 1), mailbox)
    /\ nAdded' = nAdded + 1
    /\ UNCHANGED nUser

\* QueueWidget._remove_item: the row's button is enabled for removable items.
RemoveItem(index) ==
    /\ remove_ok(mw.items, index)
    /\ Step([mw EXCEPT !.items = remove(@, index)], mailbox)
    /\ UNCHANGED <<nAdded, nUser>>

\* QueueWidget._clear_finished
ClearFinished ==
    /\ clear_finished(mw.items) # mw.items
    /\ Step([mw EXCEPT !.items = clear_finished(@)], mailbox)
    /\ UNCHANGED <<nAdded, nUser>>

\* Clear all, confirmed in the dialog.
ClearAll ==
    /\ Len(mw.items) > 0
    /\ Step(on_clear_queue_requested(mw), mailbox)
    /\ UNCHANGED <<nAdded, nUser>>

\* ---------------------------------------------------------- worker threads
\* The threads that are executing run: h.slot tells where the thread is kept.
Threads ==
    {h \in {[slot |-> "info", wk |-> mw.info_worker],
            [slot |-> "download", wk |-> mw.download_worker]} : isRunning(h.wk)}
    \cup {[slot |-> "orphan", wk |-> r] : r \in BagToSet(orphans)}

\* Thread h takes the step whose result is r.
WorkerStep(h, r) ==
    /\ mw' = CASE h.slot = "info" -> [mw EXCEPT !.info_worker = r.worker]
               [] h.slot = "download" -> [mw EXCEPT !.download_worker = r.worker]
               [] OTHER -> mw
    /\ orphans' = IF h.slot = "orphan"
                  THEN (orphans (-) SetToBag({h.wk}))
                       (+) (IF isRunning(r.worker)
                            THEN SetToBag({Unreferenced(r.worker)}) ELSE EmptyBag)
                  ELSE orphans
    /\ mailbox' = mailbox \o r.signals
    /\ UNCHANGED <<nAdded, nUser>>

\* A run that reports its result and, when something then raises, an error
\* as well.
InfoRunMut(h, ok, e) ==
    /\ h.wk.kind = "info" /\ h.wk.pc = "run"
    /\ WorkerStep(h, IF ok THEN EmitTerminal(h.wk, "emitted", "info_finished", NoText)
                     ELSE [worker |-> [h.wk EXCEPT !.pc = "emitted"],
                           signals |-> << Signal(h.wk, "info_finished", 0, NoText),
                                          Signal(h.wk, "info_error", 0,
                                                 Text("<engine message>", e.len, e.marker # 0)) >>])

\* InfoWorker.run: the engine call succeeds or raises; one signal either way.
InfoRun(h, ok, e) ==
    /\ h.wk.kind = "info" /\ h.wk.pc = "run"
    /\ WorkerStep(h, IF ok THEN EmitTerminal(h.wk, "emitted", "info_finished", NoText)
                     ELSE EmitTerminal(h.wk, "emitted", "info_error",
                                       Text("<engine message>", e.len, e.marker # 0)))

InfoExit(h) ==
    /\ h.wk.kind = "info" /\ h.wk.pc = "emitted"
    /\ WorkerStep(h, [worker |-> Returned(h.wk), signals |-> << >>])

\* The engine invokes the progress hook with event d; the clock does not run
\* backwards.
EngineHook(h, max_hooks, status, d) ==
    /\ h.wk.kind = "download" /\ h.wk.pc = "engine"
    /\ h.wk.hooks < max_hooks
    /\ d.now >= h.wk.last_progress_emit_time
    /\ WorkerStep(h, progress_hook(h.wk, status, d))

\* ydl.download returns.
EngineReturn(h) ==
    /\ h.wk.kind = "download" /\ h.wk.pc = "engine"
    /\ WorkerStep(h, after_call(h.wk))

\* ydl.download raises a genuine failure.
EngineRaise(h, e) ==
    /\ h.wk.kind = "download" /\ h.wk.pc = "engine"
    /\ WorkerStep(h, except_clause(h.wk, e))

Placement(h, playlist_mode, outcome, e) ==
    /\ h.wk.kind = "download" /\ h.wk.pc = "placing"
    /\ playlist_mode <=> (h.wk.temp_dir = "none")
    /\ outcome \in PlacementOutcomes(playlist_mode)
    /\ WorkerStep(h, placement(h.wk, outcome, e))

\* The finally clause (removal of the scratch directory), then run returns.
Finally(h, removed) ==
    /\ h.wk.kind = "download" /\ h.wk.pc = "finally"
    /\ WorkerStep(h, finally_clause(h.wk, removed))

\* ------------------------------------------------ delivery of queued signals
Slot(c) ==
    /\ Step(c, Tail(mailbox))
    /\ UNCHANGED <<nAdded, nUser>>

DeliverInfoFetched ==
    /\ mailbox # << >> /\ Head(mailbox).sig = "info_finished"
    /\ Slot(on_info_fetched(mw))

DeliverInfoError ==
    /\ mailbox # << >> /\ Head(mailbox).sig = "info_error"
    /\ Slot(on_info_error(mw, Head(mailbox).text))

DeliverProgress ==
    /\ mailbox # << >> /\ Head(mailbox).sig = "progress"
    /\ Slot(on_progress(mw, Head(mailbox).percent))

DeliverFinished ==
    /\ mailbox # << >> /\ Head(mailbox).sig = "finished"
    /\ Slot(on_download_finished(mw))

DeliverError ==
    /\ mailbox # << >> /\ Head(mailbox).sig = "error"
    /\ Slot(on_download_error(mw, Head(mailbox).text))

\* ------------------------------------------------- the whole application
UserNext ==
    \/ TypeUrl
    \/ FetchTimeout(MaxUserLaunch)
    \/ StartQueue
    \/ StartSingleDownload(MaxUserLaunch)
    \/ \E shift \in BOOLEAN : CancelDownload(shift)
    \/ AddToQueue(MaxAppAdds)
    \/ \E i \in DOMAIN mw.items : RemoveItem(i)
    \/ ClearFinished
    \/ ClearAll

\* The inputs the engine and the filesystem offer in the system specification.
SystemErrors == {[len |-> 150, marker |-> 0]}
SystemHookStatuses == {"downloading"}
\* half of the total has been downloaded, one tick after the clock's origin
HookEvents == {Event(1, 1, 2)}
SystemPlacements == {"moved"}
SystemRemovals == {TRUE}

WorkerNext ==
    \/ \E h \in Threads, ok \in BOOLEAN, e \in SystemErrors : InfoRun(h, ok, e)
    \/ \E h \in Threads : InfoExit(h)
    \/ \E h \in Threads, st \in SystemHookStatuses, d \in HookEvents :
          EngineHook(h, MaxHooks, st, d)
    \/ \E h \in Threads : EngineReturn(h)
    \/ \E h \in Threads, e \in SystemErrors : EngineRaise(h, e)
    \/ \E h \in Threads, o \in SystemPlacements, e \in SystemErrors :
          Placement(h, FALSE, o, e)
    \/ \E h \in Threads, rm \in SystemRemovals : Finally(h, rm)

DeliverNext ==
    \/ DeliverInfoFetched
    \/ DeliverInfoError
    \/ DeliverProgress
    \/ DeliverFinished
    \/ DeliverError

Next == UserNext \/ WorkerNext \/ DeliverNext

Spec == Init /\ [][Next]_vars

\* ------------------------------------------------------------ a queue run
\* The queue by itself: the user adds, removes, clears, starts and cancels;
\* every worker is started by the controller's own sequencing.
QueueUserNext ==
    \/ TypeUrl
    \/ StartQueue
    \/ \E shift \in BOOLEAN : CancelDownload(shift)
    \/ AddToQueue(MaxAdds)
    \/ \E i \in DOMAIN mw.items : RemoveItem(i)
    \/ ClearFinished
    \/ ClearAll

NextQueue == QueueUserNext \/ WorkerNext \/ DeliverNext

SpecQueue == Init /\ [][NextQueue]_vars

\* The same with fewer items: one current and one waiting behind it.
ShortQueueUserNext ==
    \/ TypeUrl
    \/ StartQueue
    \/ \E shift \in BOOLEAN : CancelDownload(shift)
    \/ AddToQueue(MaxShortAdds)
    \/ \E i \in DOMAIN mw.items : RemoveItem(i)
    \/ ClearFinished
    \/ ClearAll

NextShortQueue == ShortQueueUserNext \/ WorkerNext \/ DeliverNext

SpecShortQueue == Init /\ [][NextShortQueue]_vars

\* -------------------------------------------------- an undisturbed run
\* Items are enqueued, the queue is started once and the user then leaves the
\* application alone; every metadata fetch and every transfer succeeds.  The
\* URL timer is not the user's: it fires when it will.  The engine reports no
\* progress.
NotStarted == ~mw.queue_active /\ \A i \in DOMAIN mw.items : mw.items[i].status = "pending"

UndisturbedNext ==
    \/ TypeUrl
    \/ NotStarted /\ AddToQueue(MaxAdds)
    \/ NotStarted /\ StartQueue
    \/ FetchTimeout(MaxUserLaunch)
    \/ \E h \in Threads, e \in SystemErrors : InfoRun(h, TRUE, e)
    \/ \E h \in Threads : InfoExit(h)
    \/ \E h \in Threads : EngineReturn(h)
    \/ \E h \in Threads, o \in SystemPlacements, e \in SystemErrors :
          Placement(h, FALSE, o, e)
    \/ \E h \in Threads, rm \in SystemRemovals : Finally(h, rm)
    \/ DeliverInfoFetched
    \/ DeliverFinished

SpecUndisturbed == Init /\ [][UndisturbedNext]_vars

\* ------------------------------------------------ a run that is cancelled
\* Items are enqueued before the queue is started; during the run the user
\* cancels, with or without Shift; a fetch or a transfer may fail.  The engine
\* reports no progress.
PrefilledNext ==
    \/ TypeUrl
    \/ NotStarted /\ AddToQueue(MaxAdds)
    \/ StartQueue
    \/ \E shift \in BOOLEAN : CancelDownload(shift)
    \/ \E h \in Threads, ok \in BOOLEAN, e \in SystemErrors : InfoRun(h, ok, e)
    \/ \E h \in Threads : InfoExit(h)
    \/ \E h \in Threads : EngineReturn(h)
    \/ \E h \in Threads, e \in SystemErrors : EngineRaise(h, e)
    \/ \E h \in Threads, o \in SystemPlacements, e \in SystemErrors :
          Placement(h, FALSE, o, e)
    \/ \E h \in Threads, rm \in SystemRemovals : Finally(h, rm)
    \/ DeliverInfoFetched
    \/ DeliverInfoError
    \/ DeliverFinished
    \/ DeliverError

SpecPrefilled == Init /\ [][PrefilledNext]_vars

\* ------------------------------------------- a queue run whose items fail
\* As above, with the engine free to fail with any message: one without the
\* word "cancel", one with it among the first 100 characters, one with it
\* further on.
FailureErrors ==
    {[len |-> 150, marker |-> 0], [len |-> 40, marker |-> 10], [len |-> 150, marker |-> 120]}

FailureNext ==
    \/ TypeUrl
    \/ NotStarted /\ AddToQueue(MaxShortAdds)
    \/ StartQueue
    \/ \E shift \in BOOLEAN : CancelDownload(shift)
    \/ \E h \in Threads, ok \in BOOLEAN, e \in FailureErrors : InfoRun(h, ok, e)
    \/ \E h \in Threads : InfoExit(h)
    \/ \E h \in Threads : EngineReturn(h)
    \/ \E h \in Threads, e \in FailureErrors : EngineRaise(h, e)
    \/ \E h \in Threads, o \in {"moved", "raise"}, e \in FailureErrors :
          Placement(h, FALSE, o, e)
    \/ \E h \in Threads, rm \in SystemRemovals : Finally(h, rm)
    \/ DeliverInfoFetched
    \/ DeliverInfoError
    \/ DeliverFinished
    \/ DeliverError

SpecFailure == Init /\ [][FailureNext]_vars

\* ------------------------------------------------- one transfer, alone
\* A single download has just been started; the user may cancel it at any
\* time; the engine and the filesystem may do anything.  The download is of
\* a single file (with a scratch directory) or of a playlist (without).
\* Signals are left in the mailbox, which so records what run has emitted.
WorkerHookStatuses == {"downloading", "finished"}
WorkerEvents ==
    {Event(now, b[1], b[2]) : now \in {1, 2, 3}, b \in {<<0, 0>>, <<1, 2>>}}

InitWorker ==
    /\ \E scratch \in {"dir", "none"} :
          mw = [_start_download_for_url([InitMainWindow EXCEPT !.url = "http"]) EXCEPT
                    !.started = 0, !.download_worker.temp_dir = scratch]
    /\ orphans = EmptyBag
    /\ mailbox = << >>
    /\ nAdded = 0
    /\ nUser = 0

NextWorker ==
    \/ CancelDownload(FALSE)
    \/ \E h \in Threads, st \in WorkerHookStatuses, d \in WorkerEvents :
          EngineHook(h, MaxWorkerHooks, st, d)
    \/ \E h \in Threads : EngineReturn(h)
    \/ \E h \in Threads, e \in EngineErrors : EngineRaise(h, e)
    \/ \E h \in Threads, pm \in BOOLEAN, e \in EngineErrors :
          \E o \in PlacementOutcomes(pm) : Placement(h, pm, o, e)
    \/ \E h \in Threads, rm \in BOOLEAN : Finally(h, rm)

SpecWorker == InitWorker /\ [][NextWorker]_vars

\* --------------------------------------- one transfer and its deliveries
\* The transfer taken alone, with the GUI thread taking its signals from the
\* event queue.
NextDelivery ==
    \/ NextWorker
    \/ DeliverProgress
    \/ DeliverFinished
    \/ DeliverError

SpecDelivery == InitWorker /\ [][NextDelivery]_vars

\* ------------------------------------------- byte counts of any size
\* One transfer whose engine reports any byte counts: no total, a total that
\* is reached, and an estimated total that the download overshoots.
OvershootEvents ==
    {Event(now, downloaded, total) :
        now \in {1, 2, 3}, downloaded \in {0, 200, 400, 600}, total \in {0, 400}}

NextOvershoot ==
    \/ CancelDownload(FALSE)
    \/ \E h \in Threads, st \in WorkerHookStatuses, d \in OvershootEvents :
          EngineHook(h, MaxWorkerHooks, st, d)

SpecOvershoot == InitWorker /\ [][NextOvershoot]_vars

\* ------------------------------------------------ the progress throttle
\* The engine reports 'downloading' events to the hook of one transfer, at
\* any rate and with any byte counts; the user may cancel.  The byte counts
\* give 0, 0.25, 0.5, 0.75 and 100 percent of a known total, or no total.
ThrottleTimes == {1, 2, 3, 5}
ThrottleEvents ==
    {Event(now, downloaded, total) :
        now \in ThrottleTimes, downloaded \in {0, 1, 2, 3, 400}, total \in {0, 400}}

NextThrottle ==
    \/ CancelDownload(FALSE)
    \/ \E h \in Threads, d \in ThrottleEvents :
          EngineHook(h, MaxThrottleEvents, "downloading", d)

SpecThrottle == InitWorker /\ [][NextThrottle]_vars

\* ---------------------------------------------------- locating the artifact
\* The engine call of a single-file transfer has returned, the transfer was
\* not cancelled and the scratch directory exists; it holds any entries, in
\* any enumeration order.
DirEntries ==
    {Directory(ext) : ext \in BOOLEAN}
    \cup {Unreadable(ext) : ext \in BOOLEAN}
    \cup {File(ext, size) : ext \in BOOLEAN, size \in 0..MaxSize}

Listings == UNION {[1..n -> DirEntries] : n \in 0..MaxEntries}

InitResolver ==
    /\ \E entries \in Listings :
          mw = [InitMainWindow EXCEPT
                   !.url = "http",
                   !.btn_cancel = TRUE,
                   !.btn_add_queue = FALSE,
                   !.download_worker =
                       [NewDownloadWorker(0) EXCEPT !.pc = "placing"]
                           @@ [scan |-> Scan(entries)]]
    /\ orphans = EmptyBag
    /\ mailbox = << >>
    /\ nAdded = 0
    /\ nUser = 0

\* One iteration of the loop over the directory.
ScanEntry(h) ==
    /\ h.wk.kind = "download" /\ h.wk.pc = "placing"
    /\ ~scan_over(h.wk.scan)
    /\ WorkerStep(h, [worker |-> [h.wk EXCEPT !.scan = scan_entry(@)], signals |-> << >>])

\* The loop is over: the choice, the move and the terminal signal.
Select(h) ==
    /\ h.wk.kind = "download" /\ h.wk.pc = "placing"
    /\ scan_over(h.wk.scan)
    /\ WorkerStep(h, place_selected(h.wk))

NextResolver ==
    \/ \E h \in Threads : ScanEntry(h)
    \/ \E h \in Threads : Select(h)

SpecResolver == InitResolver /\ [][NextResolver]_vars

\* The same when the scratch directory may have disappeared: line 178 finds
\* it missing before anything is scanned.
InitScratch ==
    /\ \E entries \in Listings, scratch \in {"dir", "gone"} :
          mw = [InitMainWindow EXCEPT
                   !.url = "http",
                   !.btn_cancel = TRUE,
                   !.btn_add_queue = FALSE,
                   !.download_worker =
                       [NewDownloadWorker(0) EXCEPT !.pc = "placing", !.temp_dir = scratch]
                           @@ [scan |-> Scan(IF scratch = "dir" THEN entries ELSE << >>)]]
    /\ orphans = EmptyBag
    /\ mailbox = << >>
    /\ nAdded = 0
    /\ nUser = 0

\* Lines 178-180: the scratch directory is not there.
MissingScratch(h) ==
    /\ h.wk.kind = "download" /\ h.wk.pc = "placing"
    /\ h.wk.temp_dir # "dir"
    /\ WorkerStep(h, placement(h.wk, "temp_missing", NoExc))

NextScratch ==
    \/ \E h \in Threads : MissingScratch(h)
    \/ \E h \in Threads : h.wk.temp_dir = "dir" /\ ScanEntry(h)
    \/ \E h \in Threads : h.wk.temp_dir = "dir" /\ Select(h)

SpecScratch == InitScratch /\ [][NextScratch]_vars

\* ------------------------------------------------- the suffix renaming
\* A file of the destination folder and a configured suffix; the renaming
\* step is applied to the file, and again to the file it left.
NameChars == {"c", ".", " "}
SuffixChars == {"c", ".", " ", "<"}

Strings(chars, n) == UNION {[1..k -> chars] : k \in 0..n}

InitSuffix ==
    /\ \E name \in Strings(NameChars, MaxNameLen) \ {<< >>, <<".">>, <<".", ".">>},
          suffix \in Strings(SuffixChars, MaxSuffixLen) :
          mw = [file_name_suffix |-> suffix, original |-> name,
                file_name |-> name, once |-> name, passes |-> 0]
    /\ orphans = EmptyBag
    /\ mailbox = << >>
    /\ nAdded = 0
    /\ nUser = 0

ApplySuffix ==
    /\ mw.passes < 2
    /\ mw' = [mw EXCEPT
                 !.file_name = _apply_suffix_to_file(mw.file_name_suffix, @),
                 !.once = IF mw.passes = 0
                          THEN _apply_suffix_to_file(mw.file_name_suffix, mw.file_name)
                          ELSE @,
                 !.passes = @ + 1]
    /\ UNCHANGED <<orphans, mailbox, nAdded, nUser>>

SpecSuffix == InitSuffix /\ [][ApplySuffix]_vars

\* ------------------------------------------------ the queue manager, alone
\* Any caller: the methods of QueueManager are called in any order, with any
\* index (below, inside and above the range) and any status.  mw.call is the
\* last call: the method, its arguments and what it returned.
Statuses == {"pending", "downloading", "finished", "error", "cancelled"}

\* The indices a caller passes: the program's -2 .. len.
Indices(items) == (-1)..(Len(items) + 1)

Call(op, index, value, ret) == [op |-> op, index |-> index, value |-> value, ret |-> ret]

InitManager ==
    /\ mw = [items |-> << >>, call |-> Call("init", None, None, None)]
    /\ orphans = EmptyBag
    /\ mailbox = << >>
    /\ nAdded = 0
    /\ nUser = 0

ManagerCall(items, call) ==
    /\ mw' = [items |-> items, call |-> call]
    /\ UNCHANGED <<orphans, mailbox, nUser>>

QmAdd ==
    /\ nAdded < MaxManagerAdds
    /\ nAdded' = nAdded + 1
    /\ ManagerCall(add(mw.items, nAdded + 1), Call("add", None, None, add_returns(mw.items)))

QmRemove(index) ==
    /\ ManagerCall(remove(mw.items, index),
                   Call("remove", index, None, remove_returns(mw.items, index)))
    /\ UNCHANGED nAdded

QmClearFinished ==
    /\ ManagerCall(clear_finished(mw.items),
                   Call("clear_finished", None, None, clear_finished_returns(mw.items)))
    /\ UNCHANGED nAdded

QmClearAll ==
    /\ ManagerCall(clear_all(mw.items),
                   Call("clear_all", None, None, clear_all_returns(mw.items)))
    /\ UNCHANGED nAdded

QmGetNextPending ==
    /\ ManagerCall(mw.items, Call("get_next_pending", None, None, get_next_pending(mw.items)))
    /\ UNCHANGED nAdded

QmCountPending ==
    /\ ManagerCall(mw.items, Call("count_pending", None, None, count_pending(mw.items)))
    /\ UNCHANGED nAdded

QmUpdateStatus(index, status) ==
    /\ ManagerCall(update_status(mw.items, index, status, NoText),
                   Call("update_status", index, status, update_returns(mw.items, index)))
    /\ UNCHANGED nAdded

NextManager ==
    \/ QmAdd
    \/ \E index \in Indices(mw.items) : QmRemove(index)
    \/ QmClearFinished
    \/ QmClearAll
    \/ QmGetNextPending
    \/ QmCountPending
    \/ \E index \in Indices(mw.items), status \in Statuses : QmUpdateStatus(index, status)

SpecManager == InitManager /\ [][NextManager]_vars

\* ------------------------------------------------ progress in the queue
\* Any caller sets the progress of any index to any value: negative, in
\* range, above 100 (values are in quarters of a percent).
ProgressInputs == {-Hundred, -1, 0, 1, 2 * PercentScale, Hundred - 1, Hundred, Hundred + 1, 2 * Hundred}

QmUpdateProgress(index, progress) ==
    /\ ManagerCall(update_progress(mw.items, index, progress),
                   Call("update_progress", index, progress, update_returns(mw.items, index)))
    /\ UNCHANGED nAdded

NextProgress ==
    \/ QmAdd
    \/ \E index \in Indices(mw.items), progress \in ProgressInputs :
          QmUpdateProgress(index, progress)

SpecProgress == InitManager /\ [][NextProgress]_vars

\* ------------------------------------------------------------- properties
TerminalSignals(mb) == SelectSeq(mb, LAMBDA m : m.sig \in {"finished", "error"})
ProgressSignals(mb) == SelectSeq(mb, LAMBDA m : m.sig = "progress")

\* The step delivers the signal at the head of the mailbox to its slot.
Delivers(sigs) ==
    mailbox # << >> /\ Head(mailbox).sig \in sigs /\ mailbox' = Tail(mailbox)

\* The step starts an InfoWorker / a DownloadWorker for item k (0: for none).
LaunchesInfo(k) ==
    mw'.info_worker = NewInfoWorker(k) /\ mw'.info_worker # mw.info_worker
LaunchesDownload(k) ==
    mw'.download_worker = NewDownloadWorker(k) /\ mw'.download_worker # mw.download_worker

\* The threads that have not yet emitted their terminal signal.
Working == {h \in Threads : h.wk.pc \in {"run", "engine", "placing"}}

\* C1: a run of DownloadWorker emits no terminal signal (finished or error)
\* before it leaves the try block and exactly one by the time it has left it,
\* on every path: success, exception, cancellation, missing scratch directory,
\* artifact not found, failure while placing the file.
C1_ExactlyOneTerminal ==
    LET wk == mw.download_worker
        n == Len(TerminalSignals(mailbox))
    IN  /\ wk.pc \in {"engine", "placing"} => n = 0
        /\ wk.pc \in {"finally", "done"} => n = 1

C1_Witness ==
    /\ mw.download_worker.kind = "download"
    /\ mw.download_worker.pc = "done"
    /\ Len(TerminalSignals(mailbox)) = 1

\* C2: in every reachable state at most one background worker (InfoWorker or
\* DownloadWorker) is running; here even discounting the threads that have
\* already emitted their terminal signal.
C2_AtMostOneWorker == Cardinality(Working) <= 1

\* C3: whenever a signal of a task started for a queue item is about to be
\* applied by the controller (a run is active and it tracks an index), the
\* tracked index designates that very item.
C3_UpdatesReachTheirItem ==
    (/\ mailbox # << >>
     /\ Head(mailbox).item # 0
     /\ mw.queue_active
     /\ mw.current_queue_index # None)
    => (/\ ValidIndex(mw.items, mw.current_queue_index)
        /\ mw.items[mw.current_queue_index].id = Head(mailbox).item)

\* C4: a run that is Active still has a worker executing or a callback to be
\* delivered; otherwise every launched worker has delivered its terminal
\* callback and nothing remains that could bring the controller back to Idle.
C4_ActiveRunKeepsGoing ==
    mw.queue_active => (Threads # {} \/ mailbox # << >>)

\* C5: in every reachable state at most one queue item has status downloading.
C5_AtMostOneDownloading ==
    Cardinality({i \in DOMAIN mw.items : mw.items[i].status = "downloading"}) <= 1

\* C6: whenever the controller starts a worker, no other thread is still
\* executing its run and no callback is left undelivered.
C6_LaunchAfterPreviousEnded ==
    [][(\E k \in 0..nAdded : LaunchesInfo(k) \/ LaunchesDownload(k))
         => (/\ orphans' = EmptyBag
             /\ ~(isRunning(mw'.info_worker) /\ isRunning(mw'.download_worker))
             /\ mailbox' = << >>)]_vars

\* C7: a progress-hook invocation made while the cancellation flag is set
\* raises into the engine (the run unwinds with the hook's exception) and
\* emits no progress signal, whatever the status of the hook event.
C7_HookAbortsAfterCancel ==
    [][(/\ mw.download_worker.pc = "engine"
        /\ mw.download_worker.is_cancelled
        /\ mw'.download_worker.hooks = mw.download_worker.hooks + 1)
         => (/\ mw'.download_worker.exc = HookAbort
             /\ ProgressSignals(mailbox') = ProgressSignals(mailbox))]_vars

C7_Witness ==
    /\ mw.download_worker.pc = "finally"
    /\ mw.download_worker.exc = HookAbort
    /\ ProgressSignals(mailbox) = << >>

\* The step unwinds the engine call with an exception.
EngineUnwinds ==
    mw.download_worker.pc = "engine" /\ mw'.download_worker.exc # NoExc

\* C8, as stated: when the engine call unwinds with an exception, the error
\* emitted is the cancelled one exactly when the exception is the hook's
\* abort, and otherwise carries at most 100 characters of the message.
C8_CancelledIffCausedByCancel ==
    [][EngineUnwinds
         => LET e == mw'.download_worker.exc
                t == mailbox'[Len(mailbox')].text
            IN  /\ (t = CancelledInExcept) <=> (e = HookAbort)
                /\ e # HookAbort => t.len <= ErrTruncate]_vars

\* C8, amended: when the engine call unwinds with an exception, the error
\* emitted is the cancelled one exactly when the cancellation flag is set as
\* the except clause runs, whatever raised; otherwise it carries the first 100
\* characters of the message.
C8_CancelledIffFlagSet ==
    [][EngineUnwinds
         => LET e == mw'.download_worker.exc
                t == mailbox'[Len(mailbox')].text
            IN  /\ (t = CancelledInExcept) <=> mw.download_worker.is_cancelled
                /\ ~mw.download_worker.is_cancelled
                     => (/\ t.text = "Error: <engine message>"
                         /\ t.len = Min(e.len, ErrTruncate))]_vars

C8_Witness ==
    /\ mw.download_worker.pc = "finally"
    /\ mw.download_worker.exc.len > ErrTruncate
    /\ mailbox # << >>
    /\ mailbox[Len(mailbox)].text.text = "Error: <engine message>"
    /\ mailbox[Len(mailbox)].text.len = ErrTruncate

\* C9, as stated: when a transfer's terminal signal makes the controller move
\* on while the cancel flag is set, no metadata fetch is started for the next
\* item.
C9_NoFetchWhenFlagSet ==
    [][(Delivers({"finished", "error"}) /\ mw.queue_cancel_requested)
         => ~(\E k \in 1..nAdded : LaunchesInfo(k))]_vars

\* C9, amended: the flag is consulted when the metadata of the current item
\* arrives: if it is set then, the item at the tracked index is marked
\* cancelled and that callback starts no transfer.
C9_CancelledWhenMetadataArrives ==
    [][(/\ Delivers({"info_finished"})
        /\ mw.queue_active
        /\ mw.current_queue_index # None
        /\ mw.queue_cancel_requested)
         => (/\ ValidIndex(mw.items, mw.current_queue_index)
                  => mw'.items[mw.current_queue_index].status = "cancelled"
             /\ mw'.download_worker = mw.download_worker)]_vars

C9_Witness ==
    /\ nAdded = 1
    /\ Len(mw.items) = 1
    /\ mw.items[1].status = "cancelled"
    /\ mw.items[1].error_message = CancelledByUser
    /\ mw.items[1].title = "info"

\* C10: when the error of a transfer started for a queue item is delivered
\* and carries the cancellation marker, that item is cancelled afterwards,
\* and if an item was pending its metadata fetch is started with the cancel
\* flag cleared.
C10_CancelledItemOnly ==
    [][(/\ Delivers({"error"})
        /\ is_cancel(Head(mailbox).text)
        /\ Head(mailbox).item # 0
        /\ mw.queue_active)
         => (/\ \A i \in DOMAIN mw'.items :
                   mw'.items[i].id = Head(mailbox).item => mw'.items[i].status = "cancelled"
             /\ count_pending(mw.items) > 0
                  => (\E k \in 1..nAdded : LaunchesInfo(k)) /\ ~mw'.queue_cancel_requested)]_vars

\* The run is over: it was started, the controller is idle again and every
\* worker has ended with its callbacks delivered.
RunOver ==
    /\ ~mw.queue_active
    /\ ~NotStarted
    /\ Threads = {}
    /\ mailbox = << >>

\* C11: when a run in which every fetch and every transfer succeeds is over,
\* the summary counts every enqueued item as finished, none as error or
\* cancelled, every item has status finished and none is pending.
C11_AllFinished ==
    RunOver
    => (/\ mw.queue_summary = [finished |-> Len(mw.items), error |-> 0, cancelled |-> 0]
        /\ \A i \in DOMAIN mw.items : mw.items[i].status = "finished")

C11_Witness ==
    /\ RunOver
    /\ Len(mw.items) = MaxAdds
    /\ mw.queue_summary.finished = MaxAdds
    /\ \A i \in DOMAIN mw.items : mw.items[i].status = "finished"

TerminalStatuses == {"finished", "error", "cancelled"}

\* C12: in every step, an item that is finished, error or cancelled keeps its
\* status, and an item that is downloading does not become pending again.
C12_StatusOneWay ==
    [][\A i \in DOMAIN mw.items, j \in DOMAIN mw'.items :
           mw.items[i].id = mw'.items[j].id
           => (/\ mw.items[i].status \in TerminalStatuses
                    => mw'.items[j].status = mw.items[i].status
               /\ mw.items[i].status = "downloading"
                    => mw'.items[j].status # "pending")]_vars

\* C13: a run that was given a scratch directory never ends leaving a
\* directory that could be removed; the step that runs the finally clause,
\* whether the removal succeeds or fails, emits nothing and ends the run.
C13_ScratchRemoved ==
    /\ [](mw.download_worker.pc = "done" => mw.download_worker.temp_dir # "dir")
    /\ [][mw.download_worker.pc = "finally"
            => (/\ mw'.download_worker.pc \in {"finally", "done"}
                /\ mailbox' = mailbox)]_vars

C13_Witness ==
    /\ mw.download_worker.kind = "download"
    /\ mw.download_worker.pc = "done"
    /\ mw.download_worker.temp_dir = "locked"
    /\ Len(TerminalSignals(mailbox)) = 1

\* The signal at the head of the mailbox comes from a task started for a queue
\* item and is delivered while a run is active and tracks a current item.
DeliversForCurrent(sigs) ==
    /\ Delivers(sigs)
    /\ Head(mailbox).item # 0
    /\ mw.queue_active
    /\ mw.current_queue_index # None

\* After the step the item the signal's task was started for has this status
\* and this stored message.
ItemBecomes(status, message) ==
    \A i \in DOMAIN mw'.items :
        mw'.items[i].id = Head(mailbox).item
        => mw'.items[i].status = status /\ mw'.items[i].error_message = message

\* The step moves on to the next pending item, if there is one.
Advances ==
    count_pending(mw.items) > 0 => \E k \in 1..nAdded : LaunchesInfo(k)

\* C14: when the metadata fetch of the current item reports an error, the
\* item becomes error with the message stored, no transfer is started and the
\* controller moves on to the next pending item.
C14_MetadataError ==
    [][DeliversForCurrent({"info_error"})
         => (/\ ItemBecomes("error", Head(mailbox).text)
             /\ ~(\E k \in 0..nAdded : LaunchesDownload(k))
             /\ Advances)]_vars

\* C15: when the transfer of the current item reports finished, the item
\* becomes finished with progress 100 and the controller moves on; and in
\* every state every finished item has progress 100.
C15_TransferFinished ==
    /\ [][DeliversForCurrent({"finished"})
            => (/\ ItemBecomes("finished", NoText)
                /\ \A i \in DOMAIN mw'.items :
                      mw'.items[i].id = Head(mailbox).item => mw'.items[i].progress = Hundred
                /\ Advances)]_vars
    /\ [](\A i \in DOMAIN mw.items :
              mw.items[i].status = "finished" => mw.items[i].progress = Hundred)

\* C16: when the transfer of the current item reports an error, the item
\* becomes cancelled if the message carries the cancellation marker and error
\* otherwise, the message is stored and the controller moves on.
C16_TransferError ==
    [][DeliversForCurrent({"error"})
         => (/\ ItemBecomes(IF is_cancel(Head(mailbox).text) THEN "cancelled" ELSE "error",
                            Head(mailbox).text)
             /\ Advances)]_vars

\* ---- C17
\* The step of a Shift+Cancel during an active run.
BulkCancels ==
    /\ mw.btn_cancel
    /\ mw.queue_active
    /\ mailbox' = mailbox
    /\ mw' = Committed(cancel_download(mw, TRUE))

\* The bulk pass leaves c.items with every pending item cancelled, the others
\* as they were, and the cancelled count raised by one for each.
PassCancelsPending(c) ==
    LET d == _cancel_all_pending_queue_items(c)
    IN  /\ DOMAIN d.items = DOMAIN c.items
        /\ \A i \in DOMAIN c.items :
              IF c.items[i].status = "pending"
              THEN d.items[i] = [c.items[i] EXCEPT !.status = "cancelled"]
              ELSE d.items[i] = c.items[i]
        /\ d.queue_summary =
              [c.queue_summary EXCEPT
                  !.cancelled = @ + Cardinality({i \in DOMAIN c.items :
                                                    c.items[i].status = "pending"})]

\* An item the bulk pass cancelled: the pass writes the status only, every
\* other writer of "cancelled" also writes a message.
CancelledByPass(it) == it.status = "cancelled" /\ it.error_message = NoText

\* No step makes an item the pass cancelled current or starts a worker for it.
CancelledNeverStarted ==
    \A i \in DOMAIN mw.items : \A j \in DOMAIN mw'.items :
        mw.items[i].id = mw'.items[j].id /\ CancelledByPass(mw.items[i])
            => /\ mw'.items[j].status \notin {"pending", "downloading"}
               /\ ~LaunchesInfo(mw.items[i].id)
               /\ ~LaunchesDownload(mw.items[i].id)

\* C17: a Shift+Cancel during an active run marks every pending item
\* cancelled in one pass, counting each once in the cancelled total and
\* leaving the other items to the rest of the handler; no cancelled item is
\* started afterwards.
C17_BulkCancel ==
    /\ [](PassCancelsPending(mw))
    /\ [][BulkCancels =>
             /\ PassCancelsPending(mw)
             /\ \A i \in DOMAIN mw.items :
                   mw.items[i].status = "pending" =>
                       /\ i \in DOMAIN mw'.items
                       /\ mw'.items[i].id = mw.items[i].id
                       /\ mw'.items[i].status = "cancelled"
             /\ \A i \in DOMAIN mw.items :
                   mw.items[i].status # "pending" /\ i # mw.current_queue_index =>
                       mw'.items[i] = mw.items[i]
             /\ mw'.queue_summary.cancelled - mw.queue_summary.cancelled
                    \in {count_pending(mw.items), count_pending(mw.items) + 1}]_vars
    /\ [][CancelledNeverStarted]_vars

\* Two pending items were cancelled by one Shift+Cancel while a third was
\* being transferred.
C17_Witness ==
    /\ mw.queue_active
    /\ mw.queue_cancel_requested
    /\ mw.download_worker # NoWorker
    /\ mw.download_worker.is_cancelled
    /\ Cardinality({i \in DOMAIN mw.items : CancelledByPass(mw.items[i])}) >= 2
    /\ mw.queue_summary.cancelled >= 2

\* ---- C18
\* No signal follows a terminal signal in the event queue.
TerminalIsLast(mb) ==
    \A i \in DOMAIN mb : mb[i].sig \in {"finished", "error"} => i = Len(mb)

\* The controller has taken the task's terminal signal: its slot cleared the
\* reference to the worker.
TerminalDelivered == mw.download_worker = NoWorker

\* C18: the signals of a transfer are taken from the event queue in the
\* order run and progress_hook put them there; progress is emitted only
\* inside the engine call, the terminal signal is the last one emitted, and
\* once it has been delivered no progress signal is emitted or delivered.
C18_TerminalIsLast ==
    /\ [](TerminalIsLast(mailbox))
    /\ [](TerminalDelivered => mailbox = << >>)
    /\ [][\/ mailbox' = mailbox
          \/ mailbox # << >> /\ mailbox' = Tail(mailbox)
          \/ \E n \in 1..2 :
                /\ Len(mailbox') = Len(mailbox) + n
                /\ SubSeq(mailbox', 1, Len(mailbox)) = mailbox
                /\ \E h \in Threads :
                      /\ h.wk.kind = "download"
                      /\ h.wk.pc \in {"engine", "placing"}
                      /\ \A i \in (Len(mailbox) + 1)..Len(mailbox') :
                            mailbox'[i].sig = "progress" => h.wk.pc = "engine"]_vars
    /\ [][Delivers({"progress"}) => ~TerminalDelivered /\ ~TerminalDelivered']_vars

\* Progress and then the terminal signal were emitted, the progress has been
\* delivered and the terminal signal is the one left in the event queue.
C18_Witness ==
    /\ Len(mailbox) = 1
    /\ Head(mailbox).sig \in {"finished", "error"}
    /\ mw.download_worker # NoWorker
    /\ mw.download_worker.hooks >= 1
    /\ mw.download_worker.last_progress_percent >= 0

\* ---- C19
\* The step is the hook's handling of 'downloading' event d.
HookCall(d) ==
    LET wk == mw.download_worker
        r == progress_hook(wk, "downloading", d)
    IN  /\ wk.kind = "download" /\ wk.pc = "engine"
        /\ d.now >= wk.last_progress_emit_time
        /\ mw'.download_worker = r.worker
        /\ mailbox' = mailbox \o r.signals

\* The step emits a progress signal.
EmitsProgress ==
    /\ Len(mailbox') = Len(mailbox) + 1
    /\ mailbox'[Len(mailbox')].sig = "progress"

\* Event d is the first the worker receives, or comes 250 ms or more after
\* the last emission, or differs from the last emitted percentage by 0.5 or
\* more, or reports the known total reached.
Due(wk, d) ==
    \/ wk.hooks = 0
    \/ d.now - wk.last_progress_emit_time >= Window
    \/ AbsDiff(percent_of(d), wk.last_progress_percent) >= HalfPercent
    \/ d.total > 0 /\ d.downloaded >= d.total

RegularFiles(es) == {i \in DOMAIN es : es[i].is_file}
Matching(es) == {i \in RegularFiles(es) : es[i].ext}
Sized(es) == {i \in RegularFiles(es) : es[i].stat_ok}

\* C20: when the scan of the scratch directory is over, the file chosen is a
\* regular file with the target extension if the directory has one, wherever
\* it comes in the enumeration and whatever the sizes of the other files;
\* if it has none, the file chosen is one of largest size among the regular
\* files whose size can be read, and no file is chosen only when there is no
\* such file; finished is emitted exactly when a file is chosen.
C20_ExtensionThenLargest ==
    LET wk == mw.download_worker
    IN  wk.kind = "download" /\ wk.pc = "finally" =>
            LET es == wk.scan.entries
                t == wk.scan.target
            IN  /\ Matching(es) # {} => t \in Matching(es)
                /\ Matching(es) = {} /\ Sized(es) # {} =>
                      /\ t \in Sized(es)
                      /\ \A j \in Sized(es) : es[j].size <= es[t].size
                /\ Matching(es) = {} /\ Sized(es) = {} => t = None
                /\ Len(mailbox) = 1
                /\ mailbox[1].sig = IF t # None THEN "finished" ELSE "error"

\* A larger file without the extension was enumerated before the file with
\* it, and the file with the extension was chosen.
C20_Witness ==
    LET wk == mw.download_worker
    IN  /\ wk.kind = "download" /\ wk.pc = "finally"
        /\ wk.scan.target # None
        /\ wk.scan.entries[wk.scan.target].ext
        /\ wk.scan.entries[wk.scan.target].stat_ok
        /\ \E i \in 1..(wk.scan.target - 1) :
              /\ wk.scan.entries[i].is_file /\ wk.scan.entries[i].stat_ok
              /\ wk.scan.entries[i].size > wk.scan.entries[wk.scan.target].size

\* ---- C21
\* C21: the suffix-renaming step applied to the file it has already renamed
\* leaves the name as it is: after two applications the file has the name it
\* had after one.
C21_SuffixIdempotent ==
    mw.passes = 2 => mw.file_name = mw.once

\* ---- C22
\* items without the entry at position index.
Without(items, index) ==
    [i \in 1..(Len(items) - 1) |-> IF i < index THEN items[i] ELSE items[i + 1]]

\* C22: remove(index) returns True and takes out the item at that index and
\* no other when the index is in range and the item is pending, finished or
\* error; otherwise (downloading, cancelled, index out of range) it returns
\* False and the queue is as before.
C22_RemoveContract ==
    /\ [](\A index \in Indices(mw.items) :
             IF /\ index \in DOMAIN mw.items
                /\ mw.items[index].status \in {"pending", "finished", "error"}
             THEN /\ remove_returns(mw.items, index) = TRUE
                  /\ remove(mw.items, index) = Without(mw.items, index)
             ELSE /\ remove_returns(mw.items, index) = FALSE
                  /\ remove(mw.items, index) = mw.items)
    /\ [][mw'.call.op = "remove" =>
             IF mw'.call.ret
             THEN /\ mw.items[mw'.call.index].status \in {"pending", "finished", "error"}
                  /\ mw'.items = Without(mw.items, mw'.call.index)
             ELSE mw'.items = mw.items]_vars

\* remove has refused a downloading item in a queue of three, which is as
\* it was.
C22_Witness ==
    /\ mw.call.op = "remove"
    /\ mw.call.ret = FALSE
    /\ Len(mw.items) = 3
    /\ mw.call.index \in DOMAIN mw.items
    /\ mw.items[mw.call.index].status = "downloading"

\* ---- C23
\* C23: in every queue state get_next_pending returns the position of the
\* pending item that no pending item precedes, with that item, or None when
\* no item is pending, and the call leaves the queue as it was; positions
\* follow the order of insertion, so the item returned is the pending item
\* that was added first.
C23_LowestPending ==
    /\ [](LET index == get_next_pending(mw.items)
          IN  IF \E i \in DOMAIN mw.items : mw.items[i].status = "pending"
              THEN /\ index \in DOMAIN mw.items
                   /\ mw.items[index].status = "pending"
                   /\ \A j \in 1..(index - 1) : mw.items[j].status # "pending"
                   /\ \A j \in DOMAIN mw.items :
                         mw.items[j].status = "pending" => mw.items[index].id <= mw.items[j].id
              ELSE index = None)
    /\ [](\A i, j \in DOMAIN mw.items : i < j => mw.items[i].id < mw.items[j].id)
    /\ [][mw'.call.op = "get_next_pending" =>
             /\ mw'.items = mw.items
             /\ mw'.call.ret = get_next_pending(mw.items)]_vars

\* get_next_pending has returned the third item of a queue whose first two
\* items are not pending.
C23_Witness ==
    /\ mw.call.op = "get_next_pending"
    /\ mw.call.ret = 3
    /\ Len(mw.items) = 3
    /\ mw.items[1].status = "downloading"
    /\ mw.items[2].status = "finished"
    /\ mw.items[3].status = "pending"

\* ---- C24
\* C24: after any sequence of add, remove, clear_finished, clear_all and
\* status updates, count_pending() is the number of items of the queue whose
\* status is pending, and the call leaves the queue as it was.
C24_CountPending ==
    /\ [](count_pending(mw.items)
              = Len(SelectSeq(mw.items, LAMBDA it : it.status = "pending")))
    /\ [][mw'.call.op = "count_pending" =>
             /\ mw'.items = mw.items
             /\ mw'.call.ret = Len(SelectSeq(mw.items, LAMBDA it : it.status = "pending"))]_vars

\* count_pending has returned 2 for a queue of two pending items and a
\* downloading one.
C24_Witness ==
    /\ mw.call.op = "count_pending"
    /\ mw.call.ret = 2
    /\ Len(mw.items) = 3
    /\ \E i \in DOMAIN mw.items : mw.items[i].status = "downloading"

\* ---- C26
\* The positions of the items clear_finished is to keep, and the k-th of them.
KeptPositions(items) ==
    {i \in DOMAIN items : items[i].status \notin {"finished", "error", "cancelled"}}
KthKept(items, k) ==
    CHOOSE i \in KeptPositions(items) :
        Cardinality({j \in KeptPositions(items) : j < i}) = k - 1

\* C26: clear_finished takes out every finished, error and cancelled item
\* and no other; the pending and downloading items stay, unchanged and in
\* the order they had; it returns True exactly when an item was taken out.
C26_ClearFinished ==
    /\ [](LET cleared == clear_finished(mw.items)
          IN  /\ Len(cleared) = Cardinality(KeptPositions(mw.items))
              /\ \A k \in DOMAIN cleared : cleared[k] = mw.items[KthKept(mw.items, k)]
              /\ clear_finished_returns(mw.items)
                     <=> (\E i \in DOMAIN mw.items :
                             mw.items[i].status \in {"finished", "error", "cancelled"}))
    /\ [][mw'.call.op = "clear_finished" =>
             /\ \A k \in DOMAIN mw'.items : mw'.items[k] = mw.items[KthKept(mw.items, k)]
             /\ \A i \in DOMAIN mw.items :
                   (\E k \in DOMAIN mw'.items : mw'.items[k].id = mw.items[i].id)
                       <=> mw.items[i].status \in {"pending", "downloading"}
             /\ mw'.call.ret <=> Len(mw'.items) < Len(mw.items)]_vars

\* clear_finished has taken the second of three items out and returned
\* True; the downloading item and the pending one remain, in order.
C26_Witness ==
    /\ mw.call.op = "clear_finished"
    /\ mw.call.ret = TRUE
    /\ nAdded = 3
    /\ Len(mw.items) = 2
    /\ mw.items[1].id = 1 /\ mw.items[1].status = "downloading"
    /\ mw.items[2].id = 3 /\ mw.items[2].status = "pending"

\* ---- C25
\* C25: update_progress stores min(100, max(0, value)) at a valid index,
\* whatever the value, changes nothing else, and stores nothing at an
\* invalid index; the progress of every item is always within [0, 100].
C25_ProgressClamped ==
    /\ [](\A i \in DOMAIN mw.items :
             mw.items[i].progress >= 0 /\ mw.items[i].progress <= Hundred)
    /\ [][mw'.call.op = "update_progress" =>
             LET index == mw'.call.index
                 value == mw'.call.value
             IN  IF index \in DOMAIN mw.items
                 THEN /\ mw'.call.ret = TRUE
                      /\ mw'.items = [mw.items EXCEPT
                                         ![index].progress = Min(Hundred, Max(0, value))]
                 ELSE /\ mw'.call.ret = FALSE
                      /\ mw'.items = mw.items]_vars

\* A value above 100 was passed for the second item, which has progress
\* 100; the first item keeps the value within the range it was given.
C25_Witness ==
    /\ mw.call.op = "update_progress"
    /\ mw.call.value > Hundred
    /\ mw.call.index = 2
    /\ Len(mw.items) >= 2
    /\ mw.items[2].progress = Hundred
    /\ mw.items[1].progress = 1

\* ---- C27
\* The outcomes of metadata fetches waiting in the event queue.
InfoSignals(mb) == SelectSeq(mb, LAMBDA m : m.sig \in {"info_finished", "info_error"})

\* The referenced InfoWorker is inside its try block: the engine call has not
\* returned or raised yet.
Fetching == mw.info_worker.kind = "info" /\ mw.info_worker.pc = "run"

\* The referenced InfoWorker has left its try block and its outcome has not
\* been delivered yet.
Fetched == mw.info_worker.kind = "info" /\ mw.info_worker.pc \in {"emitted", "done"}

Bundled == "bundled"
Local == "local"
OnPath == "which"
CommonPaths == << "C:/ffmpeg/bin", "LOCALAPPDATA/ffmpeg/bin" >>
Places == {Bundled, Local, OnPath} \cup {CommonPaths[i] : i \in DOMAIN CommonPaths}

\* Python's None and False; every path is a non-empty string and so is true.
PyNone == "None"
PyFalse == "False"
Truthy(v) == v \notin {PyNone, PyFalse}

\* The result of a call: the value returned, the value _CACHED_FFMPEG holds
\* afterwards, and the number of filesystem probes (os.path.exists,
\* shutil.which) the call made.
Lookup(ret, cached, probes) == [ret |-> ret, cached |-> cached, probes |-> probes]

\* Lines 38-47: the well-known directories, from the i-th on.
RECURSIVE common_paths(_, _, _, _)
common_paths(i, cached, fs, probes) ==
    IF i > Len(CommonPaths) THEN Lookup(PyFalse, cached, probes)
    ELSE IF CommonPaths[i] \in fs THEN Lookup(CommonPaths[i], CommonPaths[i], probes + 1)
    ELSE common_paths(i + 1, cached, fs, probes + 1)

\* frozen: sys has _MEIPASS; fs: the places where an FFmpeg exists now.
get_ffmpeg_location(cached, frozen, fs) ==
    IF Truthy(cached) THEN Lookup(cached, cached, 0)
    ELSE IF frozen /\ Bundled \in fs THEN Lookup(Bundled, Bundled, 1)
    ELSE LET n == IF frozen THEN 1 ELSE 0
         IN  IF Local \in fs THEN Lookup(Local, Local, n + 1)
             ELSE IF OnPath \in fs THEN Lookup(PyNone, PyNone, n + 2)
             ELSE common_paths(1, cached, fs, n + 2)

\* The process: its global, its environment, the number of calls made, the
\* result of the first call and the result of the latest one.
InitFfmpeg ==
    /\ \E frozen \in BOOLEAN, fs \in SUBSET Places :
          mw = [cached |-> PyNone, frozen |-> frozen, fs |-> fs, calls |-> 0,
                first |-> Lookup(PyNone, PyNone, 0), call |-> Lookup(PyNone, PyNone, 0)]
    /\ orphans = EmptyBag
    /\ mailbox = << >>
    /\ nAdded = 0
    /\ nUser = 0

GetFfmpegLocation ==
    /\ mw.calls < MaxLookups
    /\ LET r == get_ffmpeg_location(mw.cached, mw.frozen, mw.fs)
       IN  mw' = [mw EXCEPT !.cached = r.cached,
                            !.calls = @ + 1,
                            !.first = IF mw.calls = 0 THEN r ELSE @,
                            !.call = r]
    /\ UNCHANGED <<orphans, mailbox, nAdded, nUser>>

\* An FFmpeg appears at a place or disappears from it while the process runs.
FsChange(place) ==
    /\ mw.calls > 0
    /\ mw' = [mw EXCEPT !.fs = IF place \in @ THEN @ \ {place} ELSE @ \cup {place}]
    /\ UNCHANGED <<orphans, mailbox, nAdded, nUser>>

NextFfmpeg ==
    \/ GetFfmpegLocation
    \/ \E place \in Places : FsChange(place)

SpecFfmpeg == InitFfmpeg /\ [][NextFfmpeg]_vars

\* ---- C28
\* C28: after the first call every later call returns what the first call
\* returned and probes nothing, whichever the first outcome was.
C28_ComputedOnce ==
    mw.calls >= 2 => mw.call.ret = mw.first.ret /\ mw.call.probes = 0

\* ---- C29
\* The user presses Cancel during a queue run that tracks a current item,
\* while the InfoWorker started for item k has not returned and no transfer
\* exists.
CancelsDuringFetch(k) ==
    /\ mw.btn_cancel
    /\ mw.queue_active
    /\ mw.current_queue_index # None
    /\ mw.download_worker = NoWorker
    /\ mw.info_worker.kind = "info" /\ isRunning(mw.info_worker)
    /\ mw.info_worker.item = k
    /\ mailbox' = mailbox
    /\ \E shift_pressed \in BOOLEAN :
          /\ cancel_download(mw, shift_pressed) # mw
          /\ mw' = Committed(cancel_download(mw, shift_pressed))

\* Item k is in the queue c with status cancelled.
IsCancelled(c, k) ==
    \E i \in DOMAIN c.items : c.items[i].id = k /\ c.items[i].status = "cancelled"

\* C29: a cancel pressed while the current item's metadata fetch is running
\* leaves that item cancelled, and no step, the delivery of the fetch's
\* result included, starts a transfer for an item that is cancelled.
C29_CancelDuringFetch ==
    /\ [][\A k \in 1..nAdded : CancelsDuringFetch(k) => IsCancelled(mw', k)]_vars
    /\ [][\A k \in 1..nAdded : IsCancelled(mw, k) => ~LaunchesDownload(k)]_vars

\* ---- C30
\* The step gives item k the status cancelled.
BecomesCancelled(k) == IsCancelled(mw', k) /\ ~IsCancelled(mw, k)

\* The step is a press of Cancel, with or without Shift.
UserCancels ==
    /\ mw.btn_cancel
    /\ mailbox' = mailbox
    /\ \E shift_pressed \in BOOLEAN : mw' = Committed(cancel_download(mw, shift_pressed))

\* C30: an item is given the status cancelled only by a press of Cancel or,
\* later, by the slot that handles the outcome of a worker while the cancel
\* the user requested is still on record; never because of the text of an
\* engine failure.
C30_CancelledOnlyOnRequest ==
    [][\A k \in 1..nAdded :
          BecomesCancelled(k) => UserCancels \/ mw.queue_cancel_requested]_vars

\* ---- C31
\* cancel() has been called and the engine call has not returned yet.
CancelledInEngine ==
    /\ mw.download_worker.kind = "download"
    /\ mw.download_worker.pc = "engine"
    /\ mw.download_worker.is_cancelled

\* C31: when cancel() was called before the engine call returned, the step
\* that ends the engine call, a return without any further hook included,
\* emits the cancelled error and goes to the finally clause without placing
\* the artifact; a terminal signal once emitted is never followed by
\* another, so finished is never emitted; and no step of the running task
\* clears the flag.
C31_CancelBeforeReturn ==
    /\ [][CancelledInEngine /\ mw'.download_worker # mw.download_worker
            => (/\ mw'.download_worker.pc = "finally"
                /\ ~mw'.download_worker.moved
                /\ mw'.download_worker.is_cancelled
                /\ mailbox' = Append(mailbox, mailbox'[Len(mailbox')])
                /\ mailbox'[Len(mailbox')].sig = "error"
                /\ mailbox'[Len(mailbox')].text \in {CancelledAfterCall, CancelledInExcept})]_vars
    /\ [][TerminalSignals(mailbox) # << >>
            => TerminalSignals(mailbox') = TerminalSignals(mailbox)]_vars
    /\ [][mw.download_worker.is_cancelled /\ isRunning(mw'.download_worker)
            => mw'.download_worker.is_cancelled]_vars

\* The task was cancelled without any hook having run, the engine call then
\* returned, and the task is in its finally clause with the cancelled error
\* as its one terminal signal and nothing moved.
C31_Witness ==
    /\ mw.download_worker.pc = "finally"
    /\ mw.download_worker.is_cancelled
    /\ mw.download_worker.hooks = 0
    /\ mw.download_worker.exc = NoExc
    /\ ~mw.download_worker.moved
    /\ Len(mailbox) = 1
    /\ mailbox[1].text = CancelledAfterCall

\* ---- C32
\* C32: a task whose terminal signal is a cancelled error has not moved its
\* artifact into the download folder.
C32_CancelledMeansNotMoved ==
    LET wk == mw.download_worker
        t == TerminalSignals(mailbox)
    IN  (/\ wk.kind = "download" /\ wk.pc = "finally"
         /\ t # << >>
         /\ t[Len(t)].text \in {CancelledAfterCall, CancelledInExcept})
        => ~wk.moved

\* ---- C33
\* The items that the step moves into status st.
MovedInto(st) ==
    {k \in 1..nAdded :
        /\ \E j \in DOMAIN mw'.items : mw'.items[j].id = k /\ mw'.items[j].status = st
        /\ \E i \in DOMAIN mw.items : mw.items[i].id = k /\ mw.items[i].status # st}

\* The count of st before the step, within the run the step belongs to: zero
\* when the step starts the run.
CountBefore(st) == IF mw.queue_active THEN mw.queue_summary[st] ELSE 0

\* C33: in every step of a run, the last one (which reports the summary and
\* returns to idle) included, each of the three counts grows by the number of
\* items the step moves into that status; so the summary reported equals the
\* numbers of items that became finished, error and cancelled in the run.
C33_SummaryCountsItems ==
    [][(mw.queue_active \/ mw'.queue_active) /\ mw'.items # << >>
         => \A st \in {"finished", "error", "cancelled"} :
               mw'.queue_summary[st] = CountBefore(st) + Cardinality(MovedInto(st))]_vars

\* ---- C34
\* The step is a confirmed Clear all during an active run.
WipesActiveRun ==
    /\ mw.queue_active
    /\ Len(mw.items) > 0
    /\ mailbox' = mailbox
    /\ mw' = Committed(on_clear_queue_requested(mw))

\* A worker started for a queue item is referenced while no run is active:
\* the run it belonged to has been wiped.
InFlightAfterWipe ==
    /\ ~mw.queue_active
    /\ \/ mw.download_worker.item # 0
       \/ mw.info_worker.item # 0

C35_NoFinishedWhenCancelPending ==
    [][(/\ Delivers({"finished"})
        /\ mw.queue_active
        /\ ValidIndex(mw.items, mw.current_queue_index)
        /\ mw.queue_cancel_requested)
         => (/\ mw'.items[mw.current_queue_index].status # "finished"
             /\ mw'.queue_summary.finished = mw.queue_summary.finished)]_vars

\* ---- C36
\* C36: a task emits the "Processing / Converting..." event at most once,
\* whatever hook events the engine delivers.
C36_ProcessingOnce ==
    Len(SelectSeq(mailbox, LAMBDA m : m.sig = "progress" /\ m.text = Processing)) <= 1

\* ---- C37
\* C37: every progress event a task has emitted carries a percentage between
\* 0 and 100.
C37_PercentInRange ==
    \A i \in DOMAIN mailbox :
        mailbox[i].sig = "progress" => mailbox[i].percent \in 0..Hundred

\* ---- C38
\* C38: when the engine call of a single-file transfer has returned and the
\* scratch directory is missing or holds no regular file, the task, once it
\* has left the try block, has emitted exactly one signal, the error
\* "Temporary folder missing" or "File not found" respectively, and has
\* moved nothing into the download folder.
C38_NothingToPlace ==
    LET wk == mw.download_worker
    IN  wk.kind = "download" /\ wk.pc = "finally" =>
            /\ wk.temp_dir = "gone"
                  => mailbox = << Signal(wk, "error", 0, TempMissing) >> /\ ~wk.moved
            /\ wk.temp_dir = "dir" /\ RegularFiles(wk.scan.entries) = {}
                  => mailbox = << Signal(wk, "error", 0, FileNotFound) >> /\ ~wk.moved

\* The scratch directory held only a subdirectory: the task reported that
\* the file was not found.
C38_Witness ==
    LET wk == mw.download_worker
    IN  /\ wk.kind = "download" /\ wk.pc = "finally"
        /\ wk.temp_dir = "dir"
        /\ Len(wk.scan.entries) = 1
        /\ ~wk.scan.entries[1].is_file
        /\ mailbox = << Signal(wk, "error", 0, FileNotFound) >>
        /\ ~wk.moved

\* ---- C39
\* C39: the sanitized form of the configured suffix has no character that is
\* illegal in a file name and does not end with a dot or a blank.
C39_SafeSuffix ==
    LET s == _safe_suffix(mw.file_name_suffix)
    IN  /\ \A i \in DOMAIN s : s[i] # "<"
        /\ s # << >> => s[Len(s)] \notin {".", " "}

\* ------------------------------------------ the format list of InfoWorker
\* Lines 38-64 of InfoWorker.run.  A raw format, by what the filter reads of
\* it: f.get('vcodec') is Absent (no such key), Null (the key holds None),
\* "none" (audio only) or a codec name; f.get('height') is 0 (no key, None or
\* 0) or a positive height.
Absent == "<absent>"
Null == "<null>"
VCodecs == {Absent, Null, "none", "avc1.64001F"}
Heights == {0, 720, 1080}
RawFormats == [vcodec : VCodecs, height : Heights]

\* Lines 42-45: f.get('vcodec') != 'none' and f.get('height').
retained(f) == f.vcodec # "none" /\ f.height # 0

\* Lines 53-54: codec = f.get('vcodec', 'unknown'); codec.split('.')[0]
\* raises AttributeError when the key holds None.
annotate_raises(f) == f.vcodec = Null

\* Lines 61-64: sorted by height, largest first, equal heights in the order
\* of the raw list.
RECURSIVE insert_by_height(_, _)
insert_by_height(sorted, f) ==
    IF sorted = << >> THEN << f >>
    ELSE IF Head(sorted).height >= f.height
         THEN << Head(sorted) >> \o insert_by_height(Tail(sorted), f)
         ELSE << f >> \o sorted

RECURSIVE sort_by_height(_)
sort_by_height(fs) ==
    IF fs = << >> THEN << >>
    ELSE insert_by_height(sort_by_height(SubSeq(fs, 1, Len(fs) - 1)), fs[Len(fs)])

\* The list run emits with finished_signal, and whether run raises instead.
clean_formats(formats) == sort_by_height(SelectSeq(formats, retained))
filter_raises(formats) ==
    \E i \in DOMAIN formats : retained(formats[i]) /\ annotate_raises(formats[i])

InitFormats ==
    /\ \E formats \in UNION {[1..n -> RawFormats] : n \in 0..MaxFormats} :
          mw = [formats |-> formats, pc |-> "run", clean_formats |-> << >>]
    /\ orphans = EmptyBag
    /\ mailbox = << >>
    /\ nAdded = 0
    /\ nUser = 0

\* The loop and the sort: the try block ends with the list or in the except
\* clause.
FilterFormats ==
    /\ mw.pc = "run"
    /\ mw' = IF filter_raises(mw.formats)
             THEN [mw EXCEPT !.pc = "error"]
             ELSE [mw EXCEPT !.pc = "finished", !.clean_formats = clean_formats(mw.formats)]
    /\ UNCHANGED <<orphans, mailbox, nAdded, nUser>>

SpecFormats == InitFormats /\ [][FilterFormats]_vars

\* ---- C40
\* C40: every format of the list a fetch emits has a video codec (the key is
\* there, not None, not "none") and a positive height.
C40_OnlyVideoWithHeight ==
    mw.pc = "finished"
    => \A i \in DOMAIN mw.clean_formats :
          /\ mw.clean_formats[i].vcodec \notin {Absent, Null, "none"}
          /\ mw.clean_formats[i].height > 0

====
